---- MODULE Spec2Model ----
(***************************************************************************)
(* Model of the angle-driven rig builders of cortex/cortexmodules:         *)
(*   rotationreader.RotationReader      (the Orientation Extractor)        *)
(*   fkdrivenbyangle.FkDrivenByAngle    (the Driven Mapping Builder)       *)
(*   correctivejoint.CorrectiveJoint    (the Composite Orchestrator)       *)
(* The Maya scene the builders mutate is the variable `scene`: its nodes,  *)
(* their connections and the attribute values the builders write.  The     *)
(* builder objects a caller holds between calls are `rr` and `fk`.         *)
(***************************************************************************)
EXTENDS Integers, Sequences, FiniteSets, TLC

VARIABLES scene, rr, fk, last, calls, race

vars == <<scene, rr, fk, last, calls, race>>

\* Number of API calls in one run.
MaxOps == 3

\* Python's None for a string-valued attribute; node handles use 0 for None.
None == "None"

----------------------------------------------------------------------------
(* Frames' orientations: 3x3 rotation matrices with integer entries, row    *)
(* vector convention (a world matrix is local * parent).                    *)

Identity == <<<<1, 0, 0>>, <<0, 1, 0>>, <<0, 0, 1>>>>

RotZ90 == <<<<0, 1, 0>>, <<-1, 0, 0>>, <<0, 0, 1>>>>

RotX90 == <<<<1, 0, 0>>, <<0, 0, 1>>, <<0, -1, 0>>>>

MatMul(A, B) ==
    [i \in 1..3 |-> [j \in 1..3 |->
        A[i][1] * B[1][j] + A[i][2] * B[2][j] + A[i][3] * B[3][j]]]

\* The inverse of a rotation matrix is its transpose.
MatInverse(A) == [i \in 1..3 |-> [j \in 1..3 |-> A[j][i]]]

----------------------------------------------------------------------------
(* The scene: pymel calls the builders make.                                *)

Put(f, k, v) == [x \in DOMAIN f \cup {k} |-> IF x = k THEN v ELSE f[x]]

\* pm.objExists(name)
objExists(s, name) == \E i \in DOMAIN s.nodes : s.nodes[i].name = name

\* The nodes a name matches.
Matches(s, name) == {i \in DOMAIN s.nodes : s.nodes[i].name = name}

\* pm.PyNode(name): the node of that name (the first one made when a later
\* createNode asked for a taken name and Maya numbered the newcomer); 0 when
\* no node has the name.
PyNode(s, name) ==
    IF Matches(s, name) = {} THEN 0
    ELSE CHOOSE i \in Matches(s, name) : \A j \in Matches(s, name) : i <= j

\* pm.createNode(type, n=name): always makes a node; the handle is the new
\* last index.  The name field keeps the name the caller asked for (Maya
\* numbers a newcomer whose name is taken among its siblings).
createNode(s, type, name) ==
    [s EXCEPT !.nodes = Append(@, [type |-> type, name |-> name])]

\* src.sattr >> dst.dattr (connectAttr with force: a destination plug has one
\* incoming connection, the new one replaces it).
connect(s, src, sattr, dst, dattr) ==
    [s EXCEPT !.conn = {c \in @ : ~(c.dst = dst /\ c.dattr = dattr)}
                       \cup {[src |-> src, sattr |-> sattr, dst |-> dst, dattr |-> dattr]}]

\* The node feeding dst.dattr, 0 when the plug has no incoming connection
\* (what .get() returns on a message attribute, and .inputs()[0]).
InputOf(s, dst, dattr) ==
    IF \E c \in s.conn : c.dst = dst /\ c.dattr = dattr
    THEN (CHOOSE c \in s.conn : c.dst = dst /\ c.dattr = dattr).src
    ELSE 0

\* Frame Offset Calculator, transforms.get_matrix_offset(reference, target):
\* target's transform expressed in reference's space.
get_matrix_offset(s, reference, target) ==
    MatMul(s.world[target], MatInverse(s.world[reference]))

\* A call's context carries the scene, the object the call runs on, what the
\* call logged and the exception that ended it ("none" while it runs).
Raise(k, e) == [k EXCEPT !.exc = e]

Log(k, m) == [k EXCEPT !.log = @ \cup {m}]

\* The report a builder logs when it reaches its end.
Succeed(k, m) == IF k.exc # "none" THEN k ELSE Log(k, m)

----------------------------------------------------------------------------
(* rotationreader.RotationReader                                            *)

VALID_AXIS == <<"x", "y", "z">>

Range(q) == {q[i] : i \in DOMAIN q}

EmptyOutput ==
    [matrix_info |-> 0, extracted_x |-> 0, extracted_y |-> 0, extracted_z |-> 0]

\* RotationReader.__init__
RotationReader ==
    [name |-> None, target |-> None, reference |-> None, axis |-> <<>>,
     maintain_offset |-> FALSE, output_data |-> EmptyOutput, maya_data |-> 0]

\* The target and reference setters: a name that is no scene node becomes None.
ExistingOrNone(s, value) == IF ~objExists(s, value) THEN None ELSE value

\* A validation that looks at the first element only.
get_valid_axis_First(axis) ==
    IF axis.items # <<>> /\ Head(axis.items) \in Range(VALID_AXIS)
    THEN <<Head(axis.items)>>
    ELSE <<>>

\* An axis argument is a string (str = TRUE, items = <<the string>>) or a
\* tuple/list (str = FALSE).  get_valid_axis keeps the elements of VALID_AXIS
\* in input order; the empty result stands for the None it returns.
get_valid_axis(axis) ==
    SelectSeq(axis.items, LAMBDA a : a \in Range(VALID_AXIS))

\* The axis setter.
SetAxis(c, value) ==
    LET is_valid == get_valid_axis(value)
    IN  IF is_valid = <<>>
        THEN [c EXCEPT !.rr.axis = <<>>, !.log = @ \cup {"no_valid_axis"}]
        ELSE [c EXCEPT !.rr.axis = is_valid]

\* Whether get_local_space has to create the chain.
NeedsChain(r) == r.output_data.matrix_info = 0

get_local_space(c) ==
    IF c.rr.target = None
    THEN [c EXCEPT !.log = @ \cup {"target_not_set"}]
    ELSE IF c.rr.reference = None
    THEN [c EXCEPT !.log = @ \cup {"reference_not_set"}]
    ELSE IF ~NeedsChain(c.rr) THEN c
    ELSE
    LET s1 == createNode(c.s, "multMatrix", c.rr.name \o "_toLocal_MMAT")
        local_space == Len(s1.nodes)
        s2 == createNode(s1, "decomposeMatrix", c.rr.name \o "_localSpaceInfo_DMAT")
        local_space_info == Len(s2.nodes)
        s3 == IF c.rr.maintain_offset
              THEN [s2 EXCEPT !.offset = Put(@, local_space,
                        get_matrix_offset(c.s, c.rr.reference, c.rr.target))]
              ELSE s2
        i0 == IF c.rr.maintain_offset THEN "matrixIn[1]" ELSE "matrixIn[0]"
        i1 == IF c.rr.maintain_offset THEN "matrixIn[2]" ELSE "matrixIn[1]"
        s4 == connect(s3, PyNode(c.s, c.rr.target), "worldMatrix[0]", local_space, i0)
        s5 == connect(s4, PyNode(c.s, c.rr.reference), "worldInverseMatrix[0]",
                      local_space, i1)
        s6 == connect(s5, local_space, "matrixSum", local_space_info, "inputMatrix")
    IN  [c EXCEPT !.s = s6, !.rr.output_data.matrix_info = local_space_info]

Upper(axis) ==
    CASE axis = "x" -> "X" [] axis = "y" -> "Y" [] axis = "z" -> "Z" [] OTHER -> "?"

\* One rotate order for every axis.
RotateOrder_Fixed(axis) == 0

\* inputRotateOrder of the operator of an axis: the extracted axis comes last.
RotateOrder(axis) == CASE axis = "x" -> 0 [] axis = "y" -> 1 [] OTHER -> 2

\* A loop body that does not test what the reader holds.
NeedsOperator_Always(od, axis) == TRUE

\* The condition of extract_value's loop body: the reader holds no operator
\* for the axis yet.
NeedsOperator(od, axis) == od["extracted_" \o axis] = 0

\* One turn of extract_value's loop.
ExtractAxis(c, axis) ==
    IF ~NeedsOperator(c.rr.output_data, axis) THEN c
    ELSE
    LET s1 == createNode(c.s, "quatToEuler",
                         c.rr.name \o "_extractRot" \o Upper(axis) \o "_QTE")
        quat_to_euler == Len(s1.nodes)
        mi == c.rr.output_data.matrix_info
        s2 == connect(s1, mi, "outputQuat" \o Upper(axis),
                      quat_to_euler, "inputQuat" \o Upper(axis))
        s3 == connect(s2, mi, "outputQuatW", quat_to_euler, "inputQuatW")
        s4 == [s3 EXCEPT !.rotateOrder = Put(@, quat_to_euler, RotateOrder(axis))]
    IN  [c EXCEPT !.s = s4, !.rr.output_data["extracted_" \o axis] = quat_to_euler]

RECURSIVE ExtractAll(_, _)
ExtractAll(c, axes) ==
    IF axes = <<>> THEN c ELSE ExtractAll(ExtractAxis(c, Head(axes)), Tail(axes))

extract_value(c) ==
    IF c.rr.output_data.matrix_info = 0
    THEN [c EXCEPT !.log = @ \cup {"matrix_info_not_set"}]
    ELSE IF c.rr.axis = <<>>
    THEN [c EXCEPT !.log = @ \cup {"axis_not_set"}]
    ELSE ExtractAll(c, c.rr.axis)

RecordName(name) == name \o "_rotReader_DATA"

\* unlock, connect node.message to the record's field, lock: done only for
\* the fields the reader holds a node for.
StoreField(s, rec, od, field) ==
    IF od[field] = 0 THEN s
    ELSE [connect(s, od[field], "message", rec, field)
            EXCEPT !.meta[rec].locked = @ \cup {field}]

\* A test that never finds the record.
RecordExists_Never(s, name) == FALSE

\* Line 279: the test that decides between creating the record and reusing it.
RecordExists(s, name) == objExists(s, RecordName(name))

\* Lines 279-315 once the test of line 279 gave `exists`: the record is
\* created or looked up, then written.
StoreRecord(c, exists) ==
    LET s1 == IF ~exists
              THEN LET n == createNode(c.s, "network", RecordName(c.rr.name))
                   IN  [n EXCEPT !.meta = Put(@, Len(n.nodes),
                            [constructor_name |-> None, locked |-> {}])]
              ELSE c.s
        maya_data == IF ~exists THEN Len(c.s.nodes) + 1
                     ELSE PyNode(c.s, RecordName(c.rr.name))
        s2 == [s1 EXCEPT !.meta[maya_data].constructor_name = c.rr.name,
                         !.meta[maya_data].locked = @ \cup {"constructor_name"}]
        od == c.rr.output_data
        s3 == StoreField(s2, maya_data, od, "matrix_info")
        s4 == StoreField(s3, maya_data, od, "extracted_x")
        s5 == StoreField(s4, maya_data, od, "extracted_y")
        s6 == StoreField(s5, maya_data, od, "extracted_z")
    IN  [c EXCEPT !.s = s6, !.rr.maya_data = maya_data]

to_maya_data_node(c) == StoreRecord(c, RecordExists(c.s, c.rr.name))

\* RotationReader.build
build(c) ==
    Log(to_maya_data_node(extract_value(get_local_space(c))), "reader_built")

\* add_axis without its guard.
RecordMissing_Never(s, maya_data) == FALSE

\* The guard of add_axis: the metadata node must exist.
RecordMissing(s, maya_data) == ~objExists(s, maya_data)

\* add_axis's early return: a single axis, given as a string, that the record
\* already holds.
AlreadyHeld(s, rec, axis) ==
    /\ axis.str
    /\ axis.items[1] \in Range(VALID_AXIS)
    /\ InputOf(s, rec, "extracted_" \o axis.items[1]) # 0

\* RotationReader.add_axis(maya_data, axis): the new reader it returns is
\* c.rr, with c.ret telling whether one is returned; c.exc names the
\* exception that ended the call, "none" when it returned.
add_axis(s, maya_data, axis) ==
    LET c0 == [s |-> s, rr |-> RotationReader, log |-> {}, exc |-> "none",
               ret |-> FALSE]
        rec == PyNode(s, maya_data)
    IN  IF RecordMissing(s, maya_data)
        THEN [c0 EXCEPT !.log = {"record_not_found"}]
        ELSE IF rec = 0
        THEN [c0 EXCEPT !.exc = "MayaNodeError"]   \* pm.PyNode of no node
        ELSE IF AlreadyHeld(s, rec, axis) THEN c0
        ELSE
        LET c1 == [c0 EXCEPT !.rr.name = s.meta[rec].constructor_name]
            c2 == SetAxis(c1, axis)
            c3 == [c2 EXCEPT !.rr.output_data =
                      [matrix_info |-> InputOf(s, rec, "matrix_info"),
                       extracted_x |-> InputOf(s, rec, "extracted_x"),
                       extracted_y |-> InputOf(s, rec, "extracted_y"),
                       extracted_z |-> InputOf(s, rec, "extracted_z")]]
        IN  [Log(to_maya_data_node(extract_value(c3)), "axis_added") EXCEPT !.ret = TRUE]

----------------------------------------------------------------------------
(* Driven curves: what pm.setDrivenKeyframe does to the scene.              *)

\* The keys of a curve are kept sorted by driver value; a key set at a driver
\* value that has one replaces it.
RECURSIVE SetKey(_, _)
SetKey(keys, key) ==
    IF keys = <<>> THEN <<key>>
    ELSE IF Head(keys).dv = key.dv THEN <<key>> \o Tail(keys)
    ELSE IF Head(keys).dv > key.dv THEN <<key>> \o keys
    ELSE <<Head(keys)>> \o SetKey(Tail(keys), key)

NewCurve == [keys |-> <<>>, pre |-> "constant", post |-> "constant"]

\* The curves that feed a driven plug: the curve itself, or the inputs of the
\* blendWeighted node Maya puts in front of a plug with several drivers.
CurvesOf(s, node, chan) ==
    LET f == InputOf(s, node, chan)
    IN  IF f = 0 THEN {}
        ELSE IF s.nodes[f].type = "animCurve" THEN {f}
        ELSE {c.src : c \in {d \in s.conn : d.dst = f}}

\* The curve among those of a plug that the driver plug feeds, 0 when none.
CurveFrom(s, node, chan, driver, dattr) ==
    LET cs == {a \in CurvesOf(s, node, chan) :
                  \E c \in s.conn : /\ c.dst = a /\ c.dattr = "input"
                                    /\ c.src = driver /\ c.sattr = dattr}
    IN  IF cs = {} THEN 0 ELSE CHOOSE a \in cs : TRUE

BlendInput(n) == CASE n = 0 -> "input[0]" [] n = 1 -> "input[1]" [] OTHER -> "input[2]"

\* A new animCurve from the driver plug, its output not yet connected; it is
\* the node made last.
AddCurve(s, node, chan, driver, dattr) ==
    connect([createNode(s, "animCurve", s.nodes[node].name \o "_" \o chan)
                EXCEPT !.curve = Put(@, Len(s.nodes) + 1, NewCurve)],
            driver, dattr, Len(s.nodes) + 1, "input")

\* The output of the node made last feeds dst.dattr.
ConnectLast(s, dst, dattr) == connect(s, Len(s.nodes), "output", dst, dattr)

\* A blendWeighted node put between the curve that feeds a driven plug and
\* the plug.
AddBlend(s, node, chan) ==
    connect(connect(createNode(s, "blendWeighted", s.nodes[node].name \o "_" \o chan),
                    InputOf(s, node, chan), "output", Len(s.nodes) + 1, BlendInput(0)),
            Len(s.nodes) + 1, "output", node, chan)

\* The scene with a curve from the driver plug on the driven plug: the one
\* that is there, a first curve, or a further curve behind a blendWeighted.
WithCurve(s, node, chan, driver, dattr) ==
    IF CurveFrom(s, node, chan, driver, dattr) # 0 THEN s
    ELSE IF InputOf(s, node, chan) = 0
    THEN ConnectLast(AddCurve(s, node, chan, driver, dattr), node, chan)
    ELSE IF s.nodes[InputOf(s, node, chan)].type = "animCurve"
    THEN ConnectLast(AddCurve(AddBlend(s, node, chan), node, chan, driver, dattr),
                     Len(s.nodes) + 1, BlendInput(1))
    ELSE ConnectLast(AddCurve(s, node, chan, driver, dattr), InputOf(s, node, chan),
                     BlendInput(Cardinality(CurvesOf(s, node, chan))))

\* The key set on the curve the driver plug feeds.
KeyCurve(s, node, chan, driver, dattr, driverValue, value) ==
    [s EXCEPT !.curve[CurveFrom(s, node, chan, driver, dattr)].keys =
        SetKey(@, [dv |-> driverValue, v |-> value, itt |-> "spline", ott |-> "spline"])]

\* pm.setDrivenKeyframe(driven, currentDriver=, driverValue=, value=,
\*                      inTangentType='spline', outTangentType='spline')
setDrivenKeyframe(s, node, chan, driver, dattr, driverValue, value) ==
    KeyCurve(WithCurve(s, node, chan, driver, dattr), node, chan, driver, dattr,
             driverValue, value)

\* The calibration samples, zip((-90, 0, 90), (-1, 0, 1)).
Samples == <<<<-90, -1>>, <<0, 0>>, <<90, 1>>>>

\* Curve values are computed in sixteenths, which is exact at the ends and at
\* the middle of every segment between samples 90 apart.
EvalScale == 2 * 8

\* The slope of a tangent as <<rise, run>>: a linear tangent points at the
\* neighbouring key; a spline tangent follows the chord between the two
\* neighbours, and at an end of the curve the chord to the only neighbour.
ChordSlope(keys, i, j) == <<keys[j].v - keys[i].v, keys[j].dv - keys[i].dv>>

OutSlope(keys, i) ==
    IF Len(keys) = 1 THEN <<0, 1>>
    ELSE IF i = Len(keys) THEN ChordSlope(keys, i - 1, i)
    ELSE IF keys[i].ott = "linear" \/ i = 1 THEN ChordSlope(keys, i, i + 1)
    ELSE ChordSlope(keys, i - 1, i + 1)

InSlope(keys, i) ==
    IF Len(keys) = 1 THEN <<0, 1>>
    ELSE IF i = 1 THEN ChordSlope(keys, 1, 2)
    ELSE IF keys[i].itt = "linear" \/ i = Len(keys) THEN ChordSlope(keys, i - 1, i)
    ELSE ChordSlope(keys, i - 1, i + 1)

\* EvalScale times the rise of a slope over a run of dx.
Rise(slope, dx) == (EvalScale * slope[1] * dx) \div slope[2]

\* EvalScale times the output of a curve at driver value x, for x a key, the
\* middle of a segment, or outside the keys (where a constant infinity holds
\* the end value and a linear one continues the end tangent).
Eval(cv, x) ==
    LET keys == cv.keys
        n == Len(keys)
    IN  IF x < keys[1].dv
        THEN EvalScale * keys[1].v
             - (IF cv.pre = "linear" THEN Rise(InSlope(keys, 1), keys[1].dv - x) ELSE 0)
        ELSE IF x > keys[n].dv
        THEN EvalScale * keys[n].v
             + (IF cv.post = "linear" THEN Rise(OutSlope(keys, n), x - keys[n].dv) ELSE 0)
        ELSE IF \E i \in 1..n : keys[i].dv = x
        THEN EvalScale * (CHOOSE k \in Range(keys) : k.dv = x).v
        ELSE LET i == CHOOSE j \in 1..(n - 1) : keys[j].dv < x /\ x < keys[j + 1].dv
                 dx == keys[i + 1].dv - keys[i].dv
             IN  (EvalScale * (keys[i].v + keys[i + 1].v)) \div 2
                 + (Rise(OutSlope(keys, i), dx) - Rise(InSlope(keys, i + 1), dx)) \div 8

----------------------------------------------------------------------------
(* fkdrivenbyangle.FkDrivenByAngle                                          *)

\* FkDrivenByAngle.__init__.  maintain_offset is None until it is set.  An
\* axis_data dict is the sequence of its (axis, channels) items in the dict's
\* iteration order; a channel given as a bare string is the one-element
\* sequence, and <<>> stands for the None and the {} the builder treats alike.
FkDrivenByAngle ==
    [name |-> None, target |-> None, reference |-> None,
     maintain_offset |-> [set |-> FALSE, val |-> FALSE],
     axis_data |-> <<>>, buffer |-> 0, driver |-> 0]

\* FkDrivenByAngle.build_dag
build_dag(k) ==
    LET s1 == createNode(k.s, "transform", k.fk.name \o "_NULL")
        buffer == Len(s1.nodes)
        s2 == createNode(s1, "transform", k.fk.name \o "_DRV")
        driver == Len(s2.nodes)
        s3 == createNode(s2, "transform", k.fk.name \o "_CON")
        con == Len(s3.nodes)
        s4 == createNode(s3, "joint", k.fk.name \o "_JNT")
        jnt == Len(s4.nodes)
        s5 == [s4 EXCEPT !.parent =
                  Put(Put(Put(Put(@, buffer, 0), jnt, con), con, driver), driver, buffer)]
    IN  [k EXCEPT !.s = s5, !.fk.buffer = buffer, !.fk.driver = driver]

\* The keys of axis_data whose channels are not empty (line 214).
DrivingAxes(axis_data) ==
    LET used == SelectSeq(axis_data, LAMBDA item : item[2] # <<>>)
    IN  [i \in 1..Len(used) |-> used[i][1]]

\* All the keys of axis_data (line 297).
AllAxes(axis_data) == [i \in 1..Len(axis_data) |-> axis_data[i][1]]

\* A resolution that does not look at the frames.
ResolveOffset_Always(k) == TRUE

\* The maintain_offset build_rotation_reader resolves: true when target is
\* offset from reference.
ResolveOffset(k) ==
    get_matrix_offset(k.s, k.fk.reference, k.fk.target) # Identity

\* The builder's context once a reader call has run in context c: k.rot is
\* the reader.
FromReader(k, c) == [k EXCEPT !.s = c.s, !.log = c.log, !.rot = c.rr]

\* FkDrivenByAngle.build_rotation_reader: k.rot is the reader it built.
build_rotation_reader(k) ==
    LET mo == ResolveOffset(k)
        c0 == [s |-> k.s, rr |-> RotationReader, log |-> k.log, exc |-> "none"]
        c1 == [c0 EXCEPT !.rr.name = k.fk.name,
                         !.rr.target = ExistingOrNone(k.s, k.fk.target),
                         !.rr.reference = ExistingOrNone(k.s, k.fk.reference)]
        c2 == SetAxis(c1, [str |-> FALSE, items |-> DrivingAxes(k.fk.axis_data)])
    IN  FromReader([k EXCEPT !.fk.maintain_offset = [set |-> TRUE, val |-> mo]],
                   build([c2 EXCEPT !.rr.maintain_offset = mo]))

ChanUpper(chan) ==
    CASE chan = "tx" -> "TX" [] chan = "ty" -> "TY" [] chan = "tz" -> "TZ"
      [] chan = "rx" -> "RX" [] OTHER -> "??"

\* The name of a driver without its suffix, driver.rpartition('_')[0].
DriverBase(s, driver) ==
    LET n == s.nodes[driver].name
    IN  IF Len(n) > 4 THEN SubSeq(n, 1, Len(n) - 4) ELSE n

\* Lines 249-256: the three calibration keys of one driven plug.
RECURSIVE KeyAll(_, _, _, _, _, _)
KeyAll(s, node, chan, driver, dattr, samples) ==
    IF samples = <<>> THEN s
    ELSE KeyAll(setDrivenKeyframe(s, node, chan, driver, dattr,
                                  Head(samples)[1], Head(samples)[2]),
                node, chan, driver, dattr, Tail(samples))

\* Lines 259-262: the second key's tangents and the curve's infinity.
Linearise(cv) ==
    [cv EXCEPT !.keys = [i \in DOMAIN @ |->
                            IF i = 2 THEN [@[i] EXCEPT !.itt = "linear", !.ott = "linear"]
                            ELSE @[i]],
               !.pre = "linear", !.post = "linear"]

\* Lines 258-265: the curve found on the driven plug gets its tangents, its
\* infinity and its name.  A plug fed by a blendWeighted has no
\* setInTangentType: the call raises after the keys are set.
TuneCurve(k, s1, chan) ==
    LET anim_curve == InputOf(s1, k.fk.driver, chan)
    IN  IF s1.nodes[anim_curve].type # "animCurve"
        THEN Raise([k EXCEPT !.s = s1], "AttributeError")
        ELSE [k EXCEPT !.s =
                [s1 EXCEPT !.curve[anim_curve] = Linearise(@),
                           !.nodes[anim_curve].name =
                               DriverBase(s1, k.fk.driver) \o "_drive" \o ChanUpper(chan)
                                   \o "_ANC"]]

\* Lines 248-265 for one driven plug.  A driver plug on no node ('None.
\* outputRotateX') makes setDrivenKeyframe raise.
DriveChannel(k, op, axis, chan) ==
    IF k.exc # "none" THEN k
    ELSE IF op = 0 THEN Raise(k, "RuntimeError")
    ELSE TuneCurve(k, KeyAll(k.s, k.fk.driver, chan, op, "outputRotate" \o Upper(axis),
                             Samples),
                   chan)

RECURSIVE DriveChannels(_, _, _, _)
DriveChannels(k, op, axis, chans) ==
    IF chans = <<>> THEN k
    ELSE DriveChannels(DriveChannel(k, op, axis, Head(chans)), op, axis, Tail(chans))

\* One turn of the loop over axis_data (lines 235-265): an axis with no
\* channel is passed over; output_data has no entry for a key outside x, y, z.
RECURSIVE DriveAxes(_, _, _)
DriveAxes(k, output_data, items) ==
    IF items = <<>> \/ k.exc # "none" THEN k
    ELSE
    LET axis == Head(items)[1]
        chans == Head(items)[2]
        k1 == IF chans = <<>> THEN k
              ELSE IF axis \notin Range(VALID_AXIS) THEN Raise(k, "KeyError")
              ELSE DriveChannels(k, output_data["extracted_" \o axis], axis, chans)
    IN  DriveAxes(k1, output_data, Tail(items))

\* The driver whose channels connect_rotation_reader_to_driver_dag wires.
ConnectDriver(k) == k.fk.driver

\* FkDrivenByAngle.connect_rotation_reader_to_driver_dag
connect_rotation_reader_to_driver_dag(k, rot_reader_output_data, rot_reader_maya_data) ==
    IF k.exc # "none" THEN k
    ELSE IF rot_reader_maya_data = 0 THEN Raise(k, "AttributeError")
    ELSE
    LET s1 == [k.s EXCEPT !.meta[rot_reader_maya_data].locked = @ \ {"drive"}]
    IN  IF ConnectDriver(k) = 0 THEN Raise([k EXCEPT !.s = s1], "AttributeError")
        ELSE
        LET s2 == connect(s1, ConnectDriver(k), "message", rot_reader_maya_data, "drive")
            s3 == [s2 EXCEPT !.meta[rot_reader_maya_data].locked = @ \cup {"drive"}]
        IN  DriveAxes([k EXCEPT !.s = s3], rot_reader_output_data, k.fk.axis_data)

\* Lines 162-166 of build: the dag is built, or the builder attaches to the
\* one that is there.  A name that matches several DAG nodes makes pm.PyNode
\* raise.
AttachDag(k) ==
    IF ~objExists(k.s, k.fk.name \o "_DRV") THEN build_dag(k)
    ELSE IF Cardinality(Matches(k.s, k.fk.name \o "_DRV")) > 1
    THEN Raise(k, "MayaNodeError")
    ELSE [k EXCEPT !.fk.driver = PyNode(k.s, k.fk.name \o "_DRV"),
                   !.fk.buffer = PyNode(k.s, k.fk.name \o "_NULL")]

\* Line 172 of build: the reader just built is connected to the dag.
ConnectReader(k) ==
    connect_rotation_reader_to_driver_dag(k, k.rot.output_data, k.rot.maya_data)

\* Lines 168-174 of build.
BuildOnDag(k) ==
    IF k.exc # "none" THEN k
    ELSE Succeed(ConnectReader(build_rotation_reader(k)), "mapping_built")

\* FkDrivenByAngle.build, after the setters.
fk_build(k) ==
    IF k.fk.target = None THEN Log(k, "target_not_set")
    ELSE IF k.fk.reference = None THEN Log(k, "reference_not_set")
    ELSE IF k.fk.axis_data = <<>> THEN Log(k, "axis_data_not_set")
    ELSE BuildOnDag(AttachDag(k))

\* driver.outputs(type='network'): the records the driver's message feeds.
NetworkOutputs(s, driver) ==
    {c.dst : c \in {d \in s.conn : d.src = driver /\ s.nodes[d.dst].type = "network"}}

\* Line 306: the reader add_axis returned in context c is connected; when
\* add_axis returned nothing, reading its output_data raises.
ConnectAdded(k, c) ==
    IF ~c.ret THEN Raise([k EXCEPT !.s = c.s, !.log = @ \cup c.log], "AttributeError")
    ELSE connect_rotation_reader_to_driver_dag(
            [k EXCEPT !.s = c.s, !.log = @ \cup c.log, !.rot = c.rr],
            c.rr.output_data, c.rr.maya_data)

\* FkDrivenByAngle.add_driver_connections(driver, axis_data); pick is the
\* element outputs(type='network')[0] yields when the driver feeds a record.
\* Line 300 indexes the list before anything tests it, so a driver that feeds
\* no record raises IndexError and the report of lines 301-303 is left for a
\* handle that is false.
add_driver_connections(k, driver, axis_data, pick) ==
    IF ~objExists(k.s, driver) THEN Log(k, "driver_missing")
    ELSE
    LET k1 == [k EXCEPT !.fk.axis_data = axis_data]
        node == PyNode(k.s, driver)
    IN  IF axis_data = <<>> THEN k1
        ELSE IF Cardinality(Matches(k.s, driver)) > 1 THEN Raise(k1, "MayaNodeError")
        ELSE IF NetworkOutputs(k.s, node) = {} THEN Raise(k1, "IndexError")
        ELSE IF pick = 0 THEN Log(k1, "not_a_driver")
        ELSE
        Succeed(ConnectAdded(k1, add_axis(k.s, k.s.nodes[pick].name,
                                          [str |-> FALSE, items |-> AllAxes(axis_data)])),
                "connections_added")

----------------------------------------------------------------------------
(* correctivejoint.CorrectiveJoint                                          *)

\* Lines 152-156: the axes of all variants, each once, in iteration order.
RECURSIVE UnionAxes(_, _)
UnionAxes(axis, keys) ==
    IF keys = <<>> THEN axis
    ELSE UnionAxes(IF Head(keys) \in Range(axis) THEN axis ELSE Append(axis, Head(keys)),
                   Tail(keys))

RECURSIVE VariantAxes(_, _)
VariantAxes(axis, variants) ==
    IF variants = <<>> THEN axis
    ELSE VariantAxes(UnionAxes(axis, AllAxes(Head(variants)[2])), Tail(variants))

\* Lines 170-171: the variant's buffer goes under the inherit frame.
ParentBuffer(k, mod_inherit) ==
    IF k.exc # "none" THEN k ELSE [k EXCEPT !.s.parent[k.fk.buffer] = mod_inherit]

\* Lines 165-171: one variant after the other, on the one fk_driven object.
RECURSIVE BuildVariants(_, _, _, _)
BuildVariants(k, name, mod_inherit, variants) ==
    IF variants = <<>> \/ k.exc # "none" THEN k
    ELSE BuildVariants(
            ParentBuffer(
                connect_rotation_reader_to_driver_dag(
                    build_dag([k EXCEPT !.fk.name = name \o Head(variants)[1],
                                        !.fk.axis_data = Head(variants)[2]]),
                    k.rot.output_data, k.rot.maya_data),
                mod_inherit),
            name, mod_inherit, Tail(variants))

\* Lines 180-189: the twist step.  RotationReader has no attribute data_node,
\* so line 186 raises once extract_value has run.
TwistStep(k, mod_inherit, twist_axis) ==
    IF k.exc # "none" THEN k
    ELSE IF twist_axis = None THEN Log(k, "twist_axis_not_provided")
    ELSE Raise(FromReader(k, extract_value(
                   SetAxis([s |-> k.s, rr |-> k.rot, log |-> k.log, exc |-> "none"],
                           [str |-> TRUE, items |-> <<twist_axis>>]))),
               "AttributeError")

\* Lines 140-142: the module, inherit and data frames, made in that order.
ModuleNodes(s, name) ==
    createNode(createNode(createNode(s, "transform", name \o "_module"),
                          "transform", name \o "Inherit_TSF"),
               "transform", name \o "_DATA")

\* Lines 140-145: the frames, inherit and data parented under the module.
ModuleFrames(s, name) ==
    [ModuleNodes(s, name) EXCEPT !.parent =
        Put(Put(Put(@, Len(s.nodes) + 1, 0), Len(s.nodes) + 2, Len(s.nodes) + 1),
            Len(s.nodes) + 3, Len(s.nodes) + 1)]

\* A composite that builds its reader twice, each time on a new object.
SharedReader_Twice(s, name, target, reference, variants) ==
    build(SetAxis([s |-> build(SetAxis(
                            [s |-> s,
                             rr |-> [RotationReader EXCEPT
                                        !.name = name,
                                        !.target = ExistingOrNone(s, target),
                                        !.reference = ExistingOrNone(s, reference)],
                             log |-> {}, exc |-> "none"],
                            [str |-> FALSE, items |-> VariantAxes(<<>>, variants)])).s,
                   rr |-> [RotationReader EXCEPT !.name = name,
                                                 !.target = ExistingOrNone(s, target),
                                                 !.reference = ExistingOrNone(s, reference)],
                   log |-> {}, exc |-> "none"],
                  [str |-> FALSE, items |-> VariantAxes(<<>>, variants)]))

\* Lines 148-158: the one reader of the composite, over the axes of all
\* variants; maintain_offset is left as __init__ set it.
SharedReader(s, name, target, reference, variants) ==
    build(SetAxis([s |-> s,
                   rr |-> [RotationReader EXCEPT !.name = name,
                                                 !.target = ExistingOrNone(s, target),
                                                 !.reference = ExistingOrNone(s, reference)],
                   log |-> {}, exc |-> "none"],
                  [str |-> FALSE, items |-> VariantAxes(<<>>, variants)]))

\* Lines 161-163: the one FkDrivenByAngle of the composite, after the reader
\* call that ran in context c.
VariantBuilder(c, target, reference) ==
    [s |-> c.s,
     fk |-> [FkDrivenByAngle EXCEPT !.target = ExistingOrNone(c.s, target),
                                    !.reference = ExistingOrNone(c.s, reference)],
     rot |-> c.rr, log |-> c.log, exc |-> "none"]

\* Lines 174-178: target's world position feeds the inherit frame.
FollowTarget(k, name, target, mod_inherit) ==
    IF k.exc # "none" THEN k
    ELSE
    LET ws == Len(k.s.nodes) + 1
    IN  [k EXCEPT !.s =
            connect(connect(connect(connect(
                createNode(k.s, "decomposeMatrix", name \o "WorldSpace_DMAT"),
                PyNode(k.s, target), "worldMatrix[0]", ws, "inputMatrix"),
                ws, "outputTranslateX", mod_inherit, "translateX"),
                ws, "outputTranslateY", mod_inherit, "translateY"),
                ws, "outputTranslateZ", mod_inherit, "translateZ")]

\* CorrectiveJoint.build, on an object whose setters were given name, target,
\* reference, axis_data and twist_axis.  pm.PyNode(None) and pm.objExists(None)
\* raise.
cj_build(s, name, target, reference, variants, twist_axis) ==
    LET k0 == [s |-> s, fk |-> FkDrivenByAngle, rot |-> RotationReader,
               log |-> {}, exc |-> "none"]
        mod_inherit == Len(s.nodes) + 2
    IN  IF target = None THEN Raise([k0 EXCEPT !.s = ModuleNodes(s, name)], "TypeError")
        ELSE IF reference = None
        THEN Raise([k0 EXCEPT !.s = ModuleFrames(s, name)], "TypeError")
        ELSE Succeed(
                TwistStep(
                    FollowTarget(
                        BuildVariants(
                            VariantBuilder(
                                SharedReader(ModuleFrames(s, name), name, target,
                                             reference, variants),
                                target, reference),
                            name, mod_inherit, variants),
                        name, target, mod_inherit),
                    mod_inherit, twist_axis),
                "composite_built")

----------------------------------------------------------------------------
(* The calls a rigging script makes.  Inputs are drawn from small sets.     *)

Str(a) == [str |-> TRUE, items |-> <<a>>]

List(q) == [str |-> FALSE, items |-> q]

\* (target, reference) as the caller names them; "ghost" is no scene node.
Frames == {<<"T", "R">>, <<"ghost", "R">>, <<"T", "ghost">>}

\* RotationReader.build: (target, reference, axis, maintain_offset).
ReaderInputs ==
    ({<<"T", "R">>} \X {List(<<"x", "y">>), Str("z"), Str("w")} \X BOOLEAN)
    \cup ((Frames \ {<<"T", "R">>}) \X {List(<<"x", "y">>)} \X {FALSE})
    \cup ({<<"T", "R">>} \X {List(<<"x", "w", "q">>)} \X {FALSE})

\* add_axis: the axis argument.
AxisArgs == {Str("z"), Str("x"), List(<<"x", "z">>), Str("w")}

RecordNames == {RecordName("a"), RecordName("aN"), RecordName("ghost")}

AxisData ==
    { <<<<"x", <<"tx">>>>>>,
      <<<<"z", <<"tx", "ty">>>>>>,
      <<<<"x", <<"tx">>>>, <<"y", <<"tx">>>>>>,
      <<<<"w", <<"ty">>>>, <<"x", <<"tx">>>>>>,
      <<<<"y", <<>>>>>> }

\* FkDrivenByAngle.build: (target, reference, axis_data).
\* The third item is the maintain_offset the script assigns before build,
\* "unset" when it assigns none.
MappingInputs ==
    ({<<"T", "R">>} \X AxisData \X {"unset"})
    \cup ((Frames \ {<<"T", "R">>}) \X {<<<<"x", <<"tx">>>>>>} \X {"unset"})
    \cup ({<<"T", "R">>} \X {<<<<"x", <<"tx">>>>>>} \X {"true", "false"})

\* add_driver_connections: (driver, axis_data).
ConnectionInputs ==
    ({"aN_DRV"} \X AxisData) \cup ({"T", "ghost"} \X {<<<<"x", <<"tx">>>>>>})

Variants ==
    { <<<<"N", <<<<"z", <<"tx", "ty">>>>>>>>>>,
      <<<<"N", <<<<"z", <<"tx">>>>>>>>, <<"S", <<<<"y", <<"tx">>>>>>>>>>,
      <<<<"N", <<<<"z", <<"tx">>>>>>>>, <<"S", <<<<"z", <<"ty">>>>>>>>>>,
      <<<<"S", <<<<"w", <<"tx">>>>>>>>, <<"N", <<<<"x", <<"tx">>>>>>>>>> }

\* CorrectiveJoint.build: (target, reference, axis_data, twist_axis).
CompositeInputs ==
    ({<<"T", "R">>} \X Variants \X {None, "x"})
    \cup ((Frames \ {<<"T", "R">>}) \X {<<<<"N", <<<<"z", <<"tx", "ty">>>>>>>>>>} \X {None})
    \cup ({<<"T", "R">>} \X {<<<<"N", <<<<"y", <<>>>>>>>>>>} \X {None})

\* World orientations of (T, R) the scene starts with.
Poses == {<<Identity, Identity>>, <<RotZ90, RotZ90>>, <<RotZ90, RotX90>>}

NoArgs ==
    [fresh |-> FALSE, name |-> None, target |-> None, reference |-> None,
     axis |-> List(<<>>), maintain_offset |-> FALSE, axis_data |-> <<>>,
     variants |-> <<>>, twist_axis |-> None, explicit |-> "unset"]

\* The two builds that may be in flight at once.
Procs == {1, 2}

\* A call starts: it interleaves with a build that is between its test for
\* the record and the creation of the record.
Interleave(r) ==
    [r EXCEPT !.interleaved = @ \/ \E p \in Procs : r.proc[p].pc = "checked"]

\* What is remembered of the last call: its arguments, what it logged, the
\* exception that ended it ("none" when it returned), whether it returned an
\* object, and the number of nodes the scene had before it.
Call(op, args, log, exc, ret) ==
    [op |-> op, args |-> args, log |-> log, exc |-> exc, ret |-> ret,
     n0 |-> Len(scene.nodes)]

\* A call returned (or raised) in context c: the scene is the call's, and the
\* call is remembered.
Returned(op, args, c, ret) ==
    /\ scene' = c.s
    /\ last' = Call(op, args, c.log, c.exc, ret)
    /\ calls' = calls + 1
    /\ race' = Interleave(race)

Init ==
    /\ \E p \in Poses :
         scene = [nodes |-> <<[type |-> "joint", name |-> "T"],
                              [type |-> "joint", name |-> "R"]>>,
                  conn |-> {}, meta |-> <<>>, offset |-> <<>>, rotateOrder |-> <<>>,
                  curve |-> <<>>, parent |-> <<>>,
                  world |-> [T |-> p[1], R |-> p[2]]]
    /\ rr = RotationReader
    /\ fk = FkDrivenByAngle
    /\ last = [op |-> "init", args |-> NoArgs, log |-> {}, exc |-> "none",
               ret |-> FALSE, n0 |-> 2]
    /\ calls = 0
    /\ race = [proc |-> [p \in Procs |-> [pc |-> "idle", rr |-> RotationReader,
                                          exists |-> FALSE]],
               interleaved |-> FALSE]

\* A script sets the reader's attributes and calls build, on a new
\* RotationReader or on the one it already holds.
RRBuild ==
    \E fresh \in BOOLEAN, name \in {"a"}, in \in ReaderInputs :
        LET f == in[1]
            axis == in[2]
            mo == in[3]
            c0 == [s |-> scene, rr |-> IF fresh THEN RotationReader ELSE rr,
                   log |-> {}, exc |-> "none"]
            c1 == [c0 EXCEPT !.rr.name = name,
                             !.rr.target = ExistingOrNone(scene, f[1]),
                             !.rr.reference = ExistingOrNone(scene, f[2]),
                             !.rr.maintain_offset = mo]
            c2 == build(SetAxis(c1, axis))
        IN  /\ calls < MaxOps
            /\ Returned("rr_build",
                        [NoArgs EXCEPT !.fresh = fresh, !.name = name, !.target = f[1],
                                       !.reference = f[2], !.axis = axis,
                                       !.maintain_offset = mo],
                        c2, FALSE)
            /\ rr' = c2.rr
            /\ UNCHANGED fk

\* RotationReader.add_axis(maya_data, axis); the script drops the reader it
\* returns.
AddAxis ==
    \E maya_data \in RecordNames, axis \in AxisArgs :
        LET c == add_axis(scene, maya_data, axis)
        IN  /\ calls < MaxOps
            /\ Returned("add_axis", [NoArgs EXCEPT !.name = maya_data, !.axis = axis],
                        c, c.ret)
            /\ UNCHANGED <<rr, fk>>

\* A script sets the builder's attributes and calls build, on a new
\* FkDrivenByAngle or on the one it already holds.
FkBuild ==
    \E fresh \in BOOLEAN, name \in {"aN"}, in \in MappingInputs :
        LET f == in[1]
            axis_data == in[2]
            k0 == [s |-> scene, fk |-> IF fresh THEN FkDrivenByAngle ELSE fk,
                   rot |-> RotationReader, log |-> {}, exc |-> "none"]
            k1 == [k0 EXCEPT !.fk.name = name,
                             !.fk.target = ExistingOrNone(scene, f[1]),
                             !.fk.reference = ExistingOrNone(scene, f[2]),
                             !.fk.axis_data = axis_data,
                             !.fk.maintain_offset =
                                 IF in[3] = "unset" THEN @
                                 ELSE [set |-> TRUE, val |-> in[3] = "true"]]
            k2 == fk_build(k1)
        IN  /\ calls < MaxOps
            /\ Returned("fk_build",
                        [NoArgs EXCEPT !.fresh = fresh, !.name = name, !.target = f[1],
                                       !.reference = f[2], !.axis_data = axis_data,
                                       !.explicit = in[3]],
                        k2, FALSE)
            /\ fk' = k2.fk
            /\ UNCHANGED rr

\* FkDrivenByAngle.add_driver_connections(driver, axis_data), on a new builder
\* or on the one the script holds.
AddConnections ==
    \E fresh \in BOOLEAN, in \in ConnectionInputs :
        LET driver == in[1]
            axis_data == in[2]
            outs == NetworkOutputs(scene, PyNode(scene, driver))
        IN  \E pick \in IF outs = {} THEN {0} ELSE outs :
            LET k0 == [s |-> scene, fk |-> IF fresh THEN FkDrivenByAngle ELSE fk,
                       rot |-> RotationReader, log |-> {}, exc |-> "none"]
                k1 == add_driver_connections(k0, driver, axis_data, pick)
            IN  /\ calls < MaxOps
                /\ Returned("add_connections",
                            [NoArgs EXCEPT !.fresh = fresh, !.name = driver,
                                           !.axis_data = axis_data],
                            k1, FALSE)
                /\ fk' = k1.fk
                /\ UNCHANGED rr

\* A script sets a new CorrectiveJoint's attributes and calls build.
CjBuild ==
    \E name \in {"a"}, in \in CompositeInputs :
        LET f == in[1]
            variants == in[2]
            twist_axis == in[3]
            k == cj_build(scene, name, ExistingOrNone(scene, f[1]),
                          ExistingOrNone(scene, f[2]), variants, twist_axis)
        IN  /\ calls < MaxOps
            /\ Returned("cj_build",
                        [NoArgs EXCEPT !.name = name, !.target = f[1], !.reference = f[2],
                                       !.variants = variants, !.twist_axis = twist_axis],
                        k, FALSE)
            /\ UNCHANGED <<rr, fk>>

\* A rigger tunes the curve that drives aN_DRV.tx ("Riggers can manipulate
\* those animation curves"): the sample at +90 gets the value 2.
Tune ==
    LET driver == PyNode(scene, "aN_DRV")
        cv == IF driver = 0 THEN 0 ELSE InputOf(scene, driver, "tx")
    IN  /\ calls < MaxOps
        /\ cv # 0
        /\ scene.nodes[cv].type = "animCurve"
        /\ Len(scene.curve[cv].keys) = 3
        /\ scene.curve[cv].keys[3].v # 2
        /\ scene' = [scene EXCEPT !.curve[cv].keys[3].v = 2]
        /\ last' = Call("tune", [NoArgs EXCEPT !.name = "aN_DRV"], {}, "none", FALSE)
        /\ calls' = calls + 1
        /\ race' = Interleave(race)
        /\ UNCHANGED <<rr, fk>>

Next == RRBuild \/ AddAxis \/ FkBuild \/ AddConnections \/ CjBuild \/ Tune

Spec == Init /\ [][Next]_vars

----------------------------------------------------------------------------
(* Two RotationReader.build calls in flight at once: each is cut between    *)
(* the test of to_maya_data_node (line 279) and what follows it.            *)

\* The axis the builds in flight ask for.
RaceAxes == {Str("z"), List(<<"x", "y">>)}

\* build up to and including the test of line 279, by a new reader named "a"
\* on T and R.
RaceEnter ==
    \E p \in Procs, axis \in RaceAxes :
        LET c == extract_value(get_local_space(SetAxis(
                    [s |-> scene,
                     rr |-> [RotationReader EXCEPT !.name = "a", !.target = "T",
                                                   !.reference = "R"],
                     log |-> {}, exc |-> "none"], axis)))
        IN  /\ calls < MaxOps
            /\ race.proc[p].pc = "idle"
            /\ scene' = c.s
            /\ last' = Call("race_enter", [NoArgs EXCEPT !.name = "a", !.target = "T",
                                                         !.reference = "R", !.axis = axis],
                            c.log, "none", FALSE)
            /\ calls' = calls + 1
            /\ race' = [Interleave(race) EXCEPT
                           !.proc[p] = [pc |-> "checked", rr |-> c.rr,
                                        exists |-> RecordExists(c.s, "a")]]
            /\ UNCHANGED <<rr, fk>>

\* The rest of build: the record is created or looked up as the test said,
\* written, and the build reports.
RaceFinish ==
    \E p \in Procs :
        LET c == Log(StoreRecord([s |-> scene, rr |-> race.proc[p].rr, log |-> {},
                                  exc |-> "none"],
                                 race.proc[p].exists),
                     "reader_built")
        IN  /\ race.proc[p].pc = "checked"
            /\ scene' = c.s
            /\ last' = Call("race_finish", [NoArgs EXCEPT !.name = "a"], c.log, "none", FALSE)
            /\ race' = [race EXCEPT !.proc[p] = [pc |-> "done", rr |-> c.rr,
                                                 exists |-> race.proc[p].exists]]
            /\ UNCHANGED <<rr, fk, calls>>

NextRace ==
    RRBuild \/ AddAxis \/ FkBuild \/ AddConnections \/ CjBuild \/ Tune
        \/ RaceEnter \/ RaceFinish

SpecRace == Init /\ [][NextRace]_vars

----------------------------------------------------------------------------
(* Properties.                                                              *)

Slots == {"matrix_info", "extracted_x", "extracted_y", "extracted_z"}

Axes == Range(VALID_AXIS)

OperatorName(name, axis) == name \o "_extractRot" \o Upper(axis) \o "_QTE"

\* The extraction operators the scene holds for an axis of a name.
Operators(s, name, axis) ==
    {i \in DOMAIN s.nodes :
        s.nodes[i].type = "quatToEuler" /\ s.nodes[i].name = OperatorName(name, axis)}

\* The nodes of some types a step created.
Created(s, t, types) ==
    {i \in (Len(s.nodes) + 1)..Len(t.nodes) : t.nodes[i].type \in types}

\* What a record holds: its fields' values and locks, and what feeds them.
RecordState(s, rec) == <<s.meta[rec], {c \in s.conn : c.dst = rec}>>

Requested(axis) == Range(get_valid_axis(axis))

Resolves(args) == args.target = "T" /\ args.reference = "R"

\* C1: after build is called twice with identical (name, target, reference,
\* axes), by the same or by a new builder object, the scene holds exactly one
\* extraction operator per requested axis for that name.
C1_RebuildKeepsOneOperatorPerAxis ==
    [][ ( /\ last.op = "rr_build" /\ last'.op = "rr_build"
          /\ last'.args.name = last.args.name
          /\ last'.args.target = last.args.target
          /\ last'.args.reference = last.args.reference
          /\ last'.args.axis = last.args.axis
          /\ Resolves(last'.args) )
        => \A a \in Requested(last'.args.axis) :
               Cardinality(Operators(scene', last'.args.name, a)) = 1 ]_vars

\* C2: a build for a name whose record exists reuses the record: the
\* decomposition stage and the operators the record referenced before the call
\* are the ones it references after it, and exactly one operator is created
\* for each requested axis the record did not hold.
C2_BuildReusesRecord ==
    [][ ( /\ last'.op = "rr_build"
          /\ objExists(scene, RecordName(last'.args.name)) )
        => LET rec == PyNode(scene, RecordName(last'.args.name))
           IN  /\ \A f \in Slots :
                      InputOf(scene, rec, f) # 0
                          => InputOf(scene', rec, f) = InputOf(scene, rec, f)
               /\ Resolves(last'.args)
                      => \A a \in Requested(last'.args.axis) :
                            InputOf(scene, rec, "extracted_" \o a) = 0
                                => Cardinality({i \in Created(scene, scene', {"quatToEuler"}) :
                                      scene'.nodes[i].name = OperatorName(last'.args.name, a)}) = 1
      ]_vars

\* C3: add_axis on an existing record extends it with new axes only.  The
\* decomposition stage and the operators the record holds stay the ones it
\* holds; the call creates exactly one operator for each requested axis the
\* record lacks (on a record with a decomposition stage) and no other node,
\* and the record's slot of that axis then holds the new operator; when every
\* requested axis is held, alone or inside a list, nothing is created and the
\* record is unchanged.
C3_AddAxisExtendsOnly ==
    [][ ( /\ last'.op = "add_axis"
          /\ objExists(scene, last'.args.name) )
        => LET rec == PyNode(scene, last'.args.name)
               name == scene.meta[rec].constructor_name
               lacking == {a \in Requested(last'.args.axis) :
                              /\ InputOf(scene, rec, "extracted_" \o a) = 0
                              /\ InputOf(scene, rec, "matrix_info") # 0}
               made == (Len(scene.nodes) + 1)..Len(scene'.nodes)
           IN  /\ \A f \in Slots :
                      InputOf(scene, rec, f) # 0
                          => InputOf(scene', rec, f) = InputOf(scene, rec, f)
               /\ Cardinality(made) = Cardinality(lacking)
               /\ \A a \in lacking :
                      /\ InputOf(scene', rec, "extracted_" \o a) \in made
                      /\ Operators(scene', name, a) \ Operators(scene, name, a)
                            = {InputOf(scene', rec, "extracted_" \o a)}
               /\ lacking = {} => /\ RecordState(scene', rec) = RecordState(scene, rec)
                                  /\ scene' = scene
               /\ last'.exc = "none"
      ]_vars

\* C3's case: add_axis 'z' on a record that held x and y created one node,
\* the z operator the record now holds beside them.
C3_Witness ==
    /\ last.op = "add_axis" /\ last.args.axis = Str("z")
    /\ Len(scene.nodes) = last.n0 + 1
    /\ objExists(scene, last.args.name)
    /\ LET rec == PyNode(scene, last.args.name)
       IN  /\ InputOf(scene, rec, "extracted_z") = Len(scene.nodes)
           /\ InputOf(scene, rec, "extracted_x") \in 1..last.n0
           /\ InputOf(scene, rec, "extracted_y") \in 1..last.n0

\* C4: add_axis on a record name that is no scene node reports not-found and
\* returns nothing; it creates no node and no record and leaves the scene,
\* every existing record included, as it was.
C4_AddAxisNotFound ==
    [][ ( /\ last'.op = "add_axis"
          /\ ~objExists(scene, last'.args.name) )
        => /\ "record_not_found" \in last'.log
           /\ last'.exc = "none"
           /\ ~last'.ret
           /\ scene' = scene ]_vars

\* C4's case: the not-found extension happened in a scene that holds a record.
C4_Witness ==
    /\ last.op = "add_axis"
    /\ last.args.name = RecordName("ghost")
    /\ "record_not_found" \in last.log
    /\ objExists(scene, RecordName("a"))
    /\ InputOf(scene, PyNode(scene, RecordName("a")), "extracted_x") # 0

\* C5: a build that requests no axis of x, y, z is a no-op: the scene after the
\* call is the scene before it.
C5_NoValidAxisIsNoOp ==
    [][ ( /\ last'.op = "rr_build"
          /\ Requested(last'.args.axis) = {} )
        => /\ "no_valid_axis" \in last'.log
           /\ scene' = scene ]_vars

\* C6: a build whose target or reference is no scene node reports the missing
\* node and creates no multiply chain, no decomposition stage and no
\* extraction operator, whatever axes were requested.
C6_MissingNodeCreatesNothing ==
    [][ ( /\ last'.op = "rr_build"
          /\ ~Resolves(last'.args) )
        => /\ last'.log \cap {"target_not_set", "reference_not_set"} # {}
           /\ Created(scene, scene', {"multMatrix", "decomposeMatrix", "quatToEuler"}) = {}
      ]_vars

\* The axis_data a claim about wiring speaks of: every key an axis of x, y, z
\* with at least one channel, and no channel listed under two axes.
WellFormed(axis_data) ==
    /\ axis_data # <<>>
    /\ \A i \in DOMAIN axis_data :
          /\ axis_data[i][1] \in Axes
          /\ axis_data[i][2] # <<>>
          /\ \A j \in DOMAIN axis_data :
                i # j => Range(axis_data[i][2]) \cap Range(axis_data[j][2]) = {}

\* Whether the channel of a node is fed by a curve that the node op drives.
DrivenBy(s, node, chan, op) ==
    \E cv \in CurvesOf(s, node, chan) : InputOf(s, cv, "input") = op

\* C7: add_connections on a driver with an attached record, called on a new
\* builder object, returns normally; it creates an operator only for a
\* requested axis the record lacks, and every listed channel of the named
\* driver is then driven by the record's operator of its axis.
C7_AddConnectionsWiresNamedDriver ==
    [][ ( /\ last'.op = "add_connections"
          /\ last'.args.fresh
          /\ WellFormed(last'.args.axis_data)
          /\ objExists(scene, last'.args.name)
          /\ NetworkOutputs(scene, PyNode(scene, last'.args.name)) # {} )
        => LET driver == PyNode(scene, last'.args.name)
           IN  /\ last'.exc = "none"
               /\ \E rec \in NetworkOutputs(scene, driver) :
                     \A i \in DOMAIN last'.args.axis_data :
                        LET axis == last'.args.axis_data[i][1]
                            op == InputOf(scene', rec, "extracted_" \o axis)
                        IN  /\ op # 0
                            /\ InputOf(scene, rec, "extracted_" \o axis) \in {0, op}
                            /\ \A ch \in Range(last'.args.axis_data[i][2]) :
                                  DrivenBy(scene', driver, ch, op)
      ]_vars

\* C8: add_connections on a node that exists and has no attached record
\* reports not-a-driver and changes nothing in the scene.
C8_NotADriverChangesNothing ==
    [][ ( /\ last'.op = "add_connections"
          /\ last'.args.axis_data # <<>>
          /\ objExists(scene, last'.args.name)
          /\ NetworkOutputs(scene, PyNode(scene, last'.args.name)) = {} )
        => /\ "not_a_driver" \in last'.log
           /\ last'.exc = "none"
           /\ scene' = scene ]_vars

\* The names Driven Mapping frames are built under.
MappingNames == {"aN", "aS"}

\* C9: whatever Driven Mapping builds were made for a name, standalone or
\* through the composite, the scene holds exactly one buffer frame and one
\* driver frame for it, the driver parented under the buffer.
C9_OneBufferOneDriverPerName ==
    \A n \in MappingNames :
        objExists(scene, n \o "_DRV")
            => /\ Cardinality(Matches(scene, n \o "_NULL")) = 1
               /\ Cardinality(Matches(scene, n \o "_DRV")) = 1
               /\ scene.parent[PyNode(scene, n \o "_DRV")] = PyNode(scene, n \o "_NULL")

\* The curve connect leaves on a channel: the three samples, the middle one
\* with linear tangents, linear on both sides.
Calibrated ==
    [keys |-> <<[dv |-> -90, v |-> -1, itt |-> "spline", ott |-> "spline"],
                [dv |-> 0, v |-> 0, itt |-> "linear", ott |-> "linear"],
                [dv |-> 90, v |-> 1, itt |-> "spline", ott |-> "spline"]>>,
     pre |-> "linear", post |-> "linear"]

\* C10: after a Driven Mapping build, for every (axis, non-empty channel list)
\* pair of its axis_data each listed channel of the driver is fed by a driven
\* curve with exactly the three samples, linear tangents on the middle one and
\* linear extrapolation, which evaluates to 0 at 0, 1 at 90, -1 at -90 and to
\* the linearly extrapolated 2 at 180.
C10_CalibratedCurvePerChannel ==
    ( /\ last.op = "fk_build"
      /\ Resolves(last.args)
      /\ last.n0 = 2
      /\ \A i \in DOMAIN last.args.axis_data : last.args.axis_data[i][1] \in Axes )
    => LET driver == PyNode(scene, last.args.name \o "_DRV")
       IN  \A i \in DOMAIN last.args.axis_data :
              \A ch \in Range(last.args.axis_data[i][2]) :
                 LET cv == InputOf(scene, driver, ch)
                 IN  /\ cv # 0
                     /\ scene.nodes[cv].type = "animCurve"
                     /\ scene.curve[cv] = Calibrated
                     /\ Eval(scene.curve[cv], 0) = 0
                     /\ Eval(scene.curve[cv], 90) = EvalScale
                     /\ Eval(scene.curve[cv], -90) = -EvalScale
                     /\ Eval(scene.curve[cv], 180) = 2 * EvalScale

\* The channels the inputs drive.
Channels == {"tx", "ty", "tz", "rx"}

\* C11: after any connect, every channel of every driver is driven by one
\* axis: a channel that is fed is fed by one driven curve, never by a node
\* that combines the curves of two axes.
C11_OneAxisPerChannel ==
    \A i \in DOMAIN scene.nodes :
        \A ch \in Channels :
            /\ Cardinality(CurvesOf(scene, i, ch)) <= 1
            /\ InputOf(scene, i, ch) # 0
                  => scene.nodes[InputOf(scene, i, ch)].type = "animCurve"

\* Whether the channel ch of the driver is fed, with no node in between, by a
\* driven curve that the operator of the axis drives, the operator being the
\* one held by the one record the driver is attached to.
Wired(s, driver, axis, ch) ==
    LET cv == InputOf(s, driver, ch)
    IN  /\ cv # 0
        /\ s.nodes[cv].type = "animCurve"
        /\ \E rec \in NetworkOutputs(s, driver) :
              /\ NetworkOutputs(s, driver) = {rec}
              /\ InputOf(s, rec, "extracted_" \o axis) # 0
              /\ InputOf(s, cv, "input") = InputOf(s, rec, "extracted_" \o axis)

\* C12: connecting again (axis, channel) pairs that are all wired on the
\* driver, on the builder that holds the driver, is a no-op: no curve and no
\* blend node is created and every curve keeps its samples, its tangents and
\* its driver, samples changed by tuning included.
C12_ReconnectIsNoOp ==
    [][ ( /\ last'.op = "add_connections"
          /\ ~last'.args.fresh
          /\ WellFormed(last'.args.axis_data)
          /\ objExists(scene, last'.args.name)
          /\ fk.driver = PyNode(scene, last'.args.name)
          /\ \A i \in DOMAIN last'.args.axis_data :
                \A ch \in Range(last'.args.axis_data[i][2]) :
                   Wired(scene, fk.driver, last'.args.axis_data[i][1], ch) )
        => /\ Created(scene, scene', {"animCurve", "blendWeighted"}) = {}
           /\ scene'.curve = scene.curve
           /\ \A i \in DOMAIN last'.args.axis_data :
                 \A ch \in Range(last'.args.axis_data[i][2]) :
                    /\ InputOf(scene', fk.driver, ch) = InputOf(scene, fk.driver, ch)
                    /\ Wired(scene', fk.driver, last'.args.axis_data[i][1], ch)
      ]_vars

\* C13: a composite build whose target or reference is no scene node stops
\* before it builds anything: it does not report completion and the scene
\* holds no node it did not hold before the call.
C13_CompositeValidatesFirst ==
    [][ ( /\ last'.op = "cj_build"
          /\ ~Resolves(last'.args) )
        => /\ "composite_built" \notin last'.log
           /\ Len(scene'.nodes) = Len(scene.nodes)
           /\ scene' = scene ]_vars

\* The axes of x, y, z that the variants of a composite name.
NamedAxes(variants) ==
    UNION {{variants[i][2][j][1] : j \in DOMAIN variants[i][2]} : i \in DOMAIN variants}
        \cap Axes

\* The nodes of a type and a name that a call created.
CreatedNamed(s, t, type, name) ==
    {i \in Created(s, t, {type}) : t.nodes[i].name = name}

\* C14: a composite build on a target and a reference that resolve creates
\* the extractor once, whatever the number of variants: one decomposition
\* stage, one operator for each distinct axis the variants name (and none for
\* another axis but the twist axis), and the scene then holds one record of
\* the name; in a scene that held no extractor of the name these are the only
\* ones.
C14_OneExtractorForAllVariants ==
    [][ ( /\ last'.op = "cj_build"
          /\ Resolves(last'.args) )
        => LET name == last'.args.name
           IN  /\ Cardinality(Matches(scene', RecordName(name))) = 1
               /\ Cardinality(CreatedNamed(scene, scene', "decomposeMatrix",
                                           name \o "_localSpaceInfo_DMAT")) = 1
               /\ Cardinality(Created(scene, scene', {"multMatrix"})) = 1
               /\ \A a \in Axes :
                     LET made == CreatedNamed(scene, scene', "quatToEuler",
                                              OperatorName(name, a))
                     IN  /\ a \in NamedAxes(last'.args.variants)
                            => /\ Cardinality(made) = 1
                               /\ InputOf(scene', PyNode(scene', RecordName(name)),
                                          "extracted_" \o a) \in made
                         /\ a \notin NamedAxes(last'.args.variants)
                            => Cardinality(made) <= (IF a = last'.args.twist_axis THEN 1 ELSE 0)
                         /\ ~objExists(scene, RecordName(name))
                            => Operators(scene', name, a) = made
      ]_vars

\* C14's case: a composite of two variants, North and South, that both name
\* z, built in a scene with no extractor: both drivers are there, each with a
\* channel driven by the one z operator the scene holds.
C14_Witness ==
    /\ last.op = "cj_build" /\ last.n0 = 2
    /\ Len(last.args.variants) = 2
    /\ NamedAxes(last.args.variants) = {"z"}
    /\ objExists(scene, "aN_DRV") /\ objExists(scene, "aS_DRV")
    /\ Operators(scene, "a", "z")
          = {InputOf(scene, PyNode(scene, RecordName("a")), "extracted_z")}
    /\ DrivenBy(scene, PyNode(scene, "aN_DRV"), "tx",
                InputOf(scene, PyNode(scene, RecordName("a")), "extracted_z"))
    /\ DrivenBy(scene, PyNode(scene, "aS_DRV"), "ty",
                InputOf(scene, PyNode(scene, RecordName("a")), "extracted_z"))

----------------------------------------------------------------------------
(* What the chain get_local_space wires evaluates to.                       *)

\* The matrix one input slot of a multMatrix holds: what is connected to it,
\* else the value written to it (the stored offset, slot 0), else identity.
SlotMatrix(s, mm, slot) ==
    IF \E c \in s.conn : c.dst = mm /\ c.dattr = slot
    THEN LET c == CHOOSE c \in s.conn : c.dst = mm /\ c.dattr = slot
         IN  IF c.sattr = "worldMatrix[0]" THEN s.world[s.nodes[c.src].name]
             ELSE MatInverse(s.world[s.nodes[c.src].name])
    ELSE IF slot = "matrixIn[0]" /\ mm \in DOMAIN s.offset THEN s.offset[mm]
    ELSE Identity

\* multMatrix.matrixSum: the product of its inputs in slot order.
matrixSum(s, mm) ==
    MatMul(MatMul(SlotMatrix(s, mm, "matrixIn[0]"), SlotMatrix(s, mm, "matrixIn[1]")),
           SlotMatrix(s, mm, "matrixIn[2]"))

AxisIndex(axis) == CASE axis = "x" -> 1 [] axis = "y" -> 2 [] OTHER -> 3

\* Whether the angle an operator extracts about an axis from the rotation M is
\* zero: the angle is 2 * atan2(q_axis, q_w) of M's quaternion, and
\* 4 * q_axis^2 = 1 + 2 * M[axis][axis] - trace(M).
AngleIsZero(M, axis) ==
    1 + 2 * M[AxisIndex(axis)][AxisIndex(axis)] - (M[1][1] + M[2][2] + M[3][3]) = 0

\* C15: a composite build on a target and a reference that resolve decides
\* maintain_offset from their relative transform: the chain it creates holds
\* the offset of target from reference exactly when that offset is not the
\* identity.
C15_CompositeResolvesOffset ==
    [][ ( /\ last'.op = "cj_build"
          /\ Resolves(last'.args)
          /\ last'.args.variants # <<>> )
        => \A mm \in Created(scene, scene', {"multMatrix"}) :
              IF get_matrix_offset(scene, "R", "T") # Identity
              THEN /\ mm \in DOMAIN scene'.offset
                   /\ scene'.offset[mm] = get_matrix_offset(scene, "R", "T")
              ELSE mm \notin DOMAIN scene'.offset ]_vars

\* The operators fed by the decomposition stage a multMatrix feeds.
OperatorsOf(s, mm) ==
    {op \in DOMAIN s.nodes :
        /\ s.nodes[op].type = "quatToEuler"
        /\ \E c \in s.conn, d \in s.conn :
              /\ c.src = mm /\ c.sattr = "matrixSum"
              /\ d.src = c.dst /\ d.dst = op /\ d.dattr = "inputQuatW"}

\* The axis an operator extracts: the last of its rotate order.
AxisOf(s, op) == CHOOSE a \in Axes : RotateOrder(a) = s.rotateOrder[op]

\* C16: a mapping build on a target and a reference whose world transforms are
\* identical resolves maintain_offset to false and inserts no offset in the
\* chain; the chain's product is the identity and every operator it feeds
\* extracts a zero angle at rest.
C16_NoOffsetWhenAligned ==
    [][ ( /\ last'.op = "fk_build"
          /\ Resolves(last'.args)
          /\ last'.args.explicit = "unset"
          /\ scene.world["T"] = scene.world["R"]
          /\ \E i \in DOMAIN last'.args.axis_data :
                /\ last'.args.axis_data[i][1] \in Axes
                /\ last'.args.axis_data[i][2] # <<>>
          /\ "reader_built" \in last'.log )
        => /\ fk'.maintain_offset = [set |-> TRUE, val |-> FALSE]
           /\ Cardinality(Created(scene, scene', {"multMatrix"})) = 1
           /\ \A mm \in Created(scene, scene', {"multMatrix"}) :
                 /\ mm \notin DOMAIN scene'.offset
                 /\ matrixSum(scene', mm) = Identity
                 /\ OperatorsOf(scene', mm) # {}
                 /\ \A op \in OperatorsOf(scene', mm) :
                       AngleIsZero(matrixSum(scene', mm), AxisOf(scene', op)) ]_vars

C16_Witness ==
    /\ last.op = "fk_build"
    /\ Resolves(last.args)
    /\ last.args.explicit = "unset"
    /\ scene.world["T"] = RotZ90
    /\ scene.world["R"] = RotZ90
    /\ last.exc = "none"
    /\ fk.maintain_offset = [set |-> TRUE, val |-> FALSE]
    /\ \E mm \in DOMAIN scene.nodes :
          /\ mm > last.n0
          /\ scene.nodes[mm].type = "multMatrix"
          /\ mm \notin DOMAIN scene.offset
          /\ matrixSum(scene, mm) = Identity
          /\ \E op \in OperatorsOf(scene, mm) :
                AngleIsZero(matrixSum(scene, mm), AxisOf(scene, op))

\* C17: a chain built with maintain_offset true (the offset of target from
\* reference stored in its first slot, then target's world matrix, then
\* reference's inverse world matrix) feeds the identity to the decomposition
\* stage at the pose it was built in, whatever that pose.
C17_OffsetZeroesBuildPose ==
    \A mm \in DOMAIN scene.offset :
        ( /\ scene.offset[mm] = get_matrix_offset(scene, "R", "T")
          /\ InputOf(scene, mm, "matrixIn[1]") = PyNode(scene, "T")
          /\ InputOf(scene, mm, "matrixIn[2]") = PyNode(scene, "R") )
        => matrixSum(scene, mm) = Identity

\* C18: a mapping build whose caller set maintain_offset explicitly builds the
\* extractor with that value, whatever the offset of target from reference:
\* the chain holds a stored offset exactly when the caller set true, and the
\* builder still holds the caller's value.
C18_ExplicitOffsetIsKept ==
    [][ ( /\ last'.op = "fk_build"
          /\ Resolves(last'.args)
          /\ last'.args.explicit # "unset"
          /\ "reader_built" \in last'.log )
        => /\ fk'.maintain_offset = [set |-> TRUE, val |-> last'.args.explicit = "true"]
           /\ \A mm \in Created(scene, scene', {"multMatrix"}) :
                 (mm \in DOMAIN scene'.offset) <=> (last'.args.explicit = "true") ]_vars

\* Whether the composite build that took s to t got past its steps 1 to 5: the
\* inherit frame it made follows the world-space decomposition it made.
ReachedTwistStep(s, t, name) ==
    /\ Len(t.nodes) >= Len(s.nodes) + 3
    /\ InputOf(t, Len(s.nodes) + 2, "translateZ")
          \in CreatedNamed(s, t, "decomposeMatrix", name \o "WorldSpace_DMAT")

\* C19: a composite build that gets to its twist step with a twist axis in
\* {x, y, z} leaves the inherit frame's rotation channel of that axis driven
\* by the extractor's operator for that axis; with no twist axis it logs the
\* notice and leaves the inherit frame's rotation channels unconnected.
C19_TwistDrivesInherit ==
    [][ ( /\ last'.op = "cj_build"
          /\ Resolves(last'.args)
          /\ ReachedTwistStep(scene, scene', last'.args.name) )
        => IF last'.args.twist_axis \in Axes
           THEN InputOf(scene', Len(scene.nodes) + 2,
                        "rotate" \o Upper(last'.args.twist_axis))
                   \in Operators(scene', last'.args.name, last'.args.twist_axis)
           ELSE /\ "twist_axis_not_provided" \in last'.log
                /\ \A a \in Axes :
                      InputOf(scene', Len(scene.nodes) + 2, "rotate" \o Upper(a)) = 0 ]_vars

\* C20: a composite build that gets to its twist step returns normally and
\* reports completion whatever happens in that step, with the artifacts of
\* steps 2 to 5 in place: the extractor's record, every variant's driver
\* attached to it, and the inherit frame following target's position.
C20_TwistFailureIsNotFatal ==
    [][ ( /\ last'.op = "cj_build"
          /\ Resolves(last'.args)
          /\ ReachedTwistStep(scene, scene', last'.args.name) )
        => /\ last'.exc = "none"
           /\ "composite_built" \in last'.log
           /\ objExists(scene', RecordName(last'.args.name))
           /\ \A i \in DOMAIN last'.args.variants :
                 CreatedNamed(scene, scene', "transform",
                     last'.args.name \o last'.args.variants[i][1] \o "_DRV") # {} ]_vars

\* Whether a variant's axis-to-channel map names only axes of {x, y, z}.
ValidVariant(v) == \A j \in DOMAIN v[2] : v[2][j][1] \in Axes

\* C21: in a composite build on a target and a reference that resolve, a
\* variant whose map names an axis outside {x, y, z} does not keep the other
\* variants from being built: every variant with a well-formed map gets its
\* driver, and each of its channels is driven by a curve the build created.
C21_InvalidVariantIsSkipped ==
    [][ ( /\ last'.op = "cj_build"
          /\ Resolves(last'.args)
          /\ \E i \in DOMAIN last'.args.variants : ~ValidVariant(last'.args.variants[i]) )
        => \A i \in DOMAIN last'.args.variants :
              WellFormed(last'.args.variants[i][2])
              => \E drv \in CreatedNamed(scene, scene', "transform",
                               last'.args.name \o last'.args.variants[i][1] \o "_DRV") :
                    \A j \in DOMAIN last'.args.variants[i][2] :
                       \A ch \in Range(last'.args.variants[i][2][j][2]) :
                          InputOf(scene', drv, ch) \in Created(scene, scene', {"animCurve"})
      ]_vars

\* The records of a scene.
Records(s) == {i \in DOMAIN s.nodes : s.nodes[i].type = "network"}

\* The reference fields of a record.
ReferenceFields == {"matrix_info", "extracted_x", "extracted_y", "extracted_z", "drive"}

\* Whether the constructor name of a record and each of its reference fields
\* that holds a value are locked.
Locked(s, rec) ==
    /\ "constructor_name" \in s.meta[rec].locked
    /\ \A f \in ReferenceFields : InputOf(s, rec, f) # 0 => f \in s.meta[rec].locked

\* C22: after every build, add_axis, add_connections and composite build
\* that returns normally, each record's constructor name and each of its
\* reference fields that holds a value is locked.
C22_WrittenFieldsAreLocked ==
    (last.op \in {"rr_build", "add_axis", "fk_build", "add_connections", "cj_build"}
       /\ last.exc = "none")
    => \A rec \in Records(scene) : Locked(scene, rec)

\* The records that carry a name.
RecordsOf(s, name) == {rec \in Records(s) : s.nodes[rec].name = RecordName(name)}

\* C23: as long as no call has started while a build was between its test
\* for the record and the creation of the record, a name has at most one
\* record; two builds for the same unused name that interleave there reach a
\* state with two records of that name (C23_Witness).
C23_OneRecordPerNameUnlessRaced ==
    ~race.interleaved
    => \A name \in {"a", "aN"} : Cardinality(RecordsOf(scene, name)) <= 1

C23_Witness ==
    /\ race.interleaved
    /\ \A p \in Procs : race.proc[p].pc = "done" /\ ~race.proc[p].exists
    /\ Cardinality(RecordsOf(scene, "a")) = 2

\* The angle, in degrees, an operator extracts about an axis from a rotation M
\* whose entries are integers: 2 * atan2(q_axis, q_w) of M's quaternion, with
\* 4 * q_axis^2 = 1 + 2 * M[axis][axis] - trace(M), 4 * q_w^2 = 1 + trace(M)
\* and 4 * q_w * q_axis the difference of the two entries off the axis.
ExtractedAngle(M, axis) ==
    LET a == AxisIndex(axis)
        b == (a % 3) + 1
        c == (b % 3) + 1
    IN  IF AngleIsZero(M, axis) THEN 0
        ELSE IF 1 + M[1][1] + M[2][2] + M[3][3] = 0 THEN 180
        ELSE IF M[b][c] - M[c][b] > 0 THEN 90
        ELSE -90

\* The scene with target rotated by M about its own axes, reference fixed.
Posed(s, M) == [s EXCEPT !.world["T"] = MatMul(M, @)]

\* The composite input of the example: one variant N of axis z driving tx and
\* ty, and the twist axis x.
ExampleVariants == <<<<"N", <<<<"z", <<"tx", "ty">>>>>>>>>>

\* EvalScale times the output of curve cv of scene s when target is rotated
\* by M from the pose of s, the curve's driver being the z angle of the chain
\* mm.
OutputAt(s, cv, mm, M) ==
    Eval(s.curve[cv], ExtractedAngle(matrixSum(Posed(s, M), mm), "z"))

\* C24: a composite build of the example on a target and a reference that
\* resolve leaves the variant's driver with tx and ty each fed by a curve of
\* the extractor's z operator.  As a function of the driver angle the curve's
\* output increases from -90 through 0, 45 and 90 to 180, lies strictly
\* between 0 and 1 at 45 and is exactly 1 at 90; and with reference fixed the
\* output is 0 at the pose of the build and exactly 1 once target is rotated
\* 90 degrees about its local Z.
C24_ExampleCurvesAreCalibrated ==
    [][ ( /\ last'.op = "cj_build"
          /\ Resolves(last'.args)
          /\ last'.args.variants = ExampleVariants
          /\ last'.args.twist_axis = "x" )
        => \E driver \in CreatedNamed(scene, scene', "transform", "aN_DRV") :
           \E mm \in Created(scene, scene', {"multMatrix"}) :
              \A ch \in {"tx", "ty"} :
                 LET cv == InputOf(scene', driver, ch)
                 IN  /\ cv \in Created(scene, scene', {"animCurve"})
                     /\ InputOf(scene', cv, "input") \in OperatorsOf(scene', mm)
                     /\ InputOf(scene', cv, "input")
                           = InputOf(scene', PyNode(scene', RecordName("a")), "extracted_z")
                     /\ Eval(scene'.curve[cv], -90) < Eval(scene'.curve[cv], 0)
                     /\ Eval(scene'.curve[cv], 0) < Eval(scene'.curve[cv], 45)
                     /\ Eval(scene'.curve[cv], 45) < Eval(scene'.curve[cv], 90)
                     /\ Eval(scene'.curve[cv], 90) < Eval(scene'.curve[cv], 180)
                     /\ 0 < Eval(scene'.curve[cv], 45)
                     /\ Eval(scene'.curve[cv], 45) < EvalScale
                     /\ Eval(scene'.curve[cv], 90) = EvalScale
                     /\ OutputAt(scene', cv, mm, Identity) = 0
                     /\ OutputAt(scene', cv, mm, RotZ90) = EvalScale ]_vars

\* The names extractors are built under.
ReaderNames == {"a", "aN"}

\* The rotate order the claim gives an axis: XYZ for x, YZX for y, ZXY for z.
OrderCode == [x |-> 0, y |-> 1, z |-> 2]

\* The plugs that feed a node, as <<source type, source plug, plug>>.
Feeds(s, n) == {<<s.nodes[c.src].type, c.sattr, c.dattr>> : c \in {d \in s.conn : d.dst = n}}

\* C25: every operator is the operator of one axis of one name, is fed by
\* exactly two plugs, the decomposition stage's quaternion component of its
\* axis and the scalar component, and has the rotate order of its axis (0 for
\* x, 1 for y, 2 for z); no call changes the rotate order of an operator that
\* was there before it.
C25_OperatorWiringAndOrder ==
    [][ /\ \A op \in DOMAIN scene'.nodes :
              scene'.nodes[op].type = "quatToEuler"
              => \E name \in ReaderNames, a \in Axes :
                    /\ op \in Operators(scene', name, a)
                    /\ Feeds(scene', op)
                          = { <<"decomposeMatrix", "outputQuat" \o Upper(a),
                                "inputQuat" \o Upper(a)>>,
                              <<"decomposeMatrix", "outputQuatW", "inputQuatW">> }
                    /\ scene'.rotateOrder[op] = OrderCode[a]
        /\ \A op \in DOMAIN scene.rotateOrder :
              scene'.rotateOrder[op] = scene.rotateOrder[op] ]_vars

C25_Witness ==
    /\ calls >= 2
    /\ last.op = "add_axis"
    /\ last.exc = "none"
    /\ \E ox \in Operators(scene, "a", "x"), oz \in Operators(scene, "a", "z") :
          /\ ox <= last.n0
          /\ oz > last.n0
          /\ scene.rotateOrder[ox] = 0
          /\ scene.rotateOrder[oz] = 2
          /\ Cardinality(Feeds(scene, oz)) = 2

\* Whether r is made of exactly the elements of items that are x, y or z, in
\* the order of items.
KeepsValid(items, r) ==
    \E f \in [DOMAIN r -> DOMAIN items] :
        /\ \A i \in DOMAIN r : r[i] = items[f[i]]
        /\ \A i, j \in DOMAIN r : i < j => f[i] < f[j]
        /\ {f[i] : i \in DOMAIN r} = {k \in DOMAIN items : items[k] \in {"x", "y", "z"}}

\* C26: the axis a reader holds after build is made of exactly the requested
\* elements that are x, y or z, in their input order, a string counting as one
\* element (none at all when no element is valid); and every operator and
\* every record slot that holds a node belongs to an axis of {x, y, z}.
C26_OnlyValidAxes ==
    /\ last.op = "rr_build" => KeepsValid(last.args.axis.items, rr.axis)
    /\ \A n \in DOMAIN scene.nodes :
          scene.nodes[n].type = "quatToEuler"
          => \E name \in ReaderNames, a \in {"x", "y", "z"} :
                scene.nodes[n].name = OperatorName(name, a)
    /\ \A rec \in Records(scene) :
          \A c \in {d \in scene.conn : d.dst = rec} :
             scene.nodes[c.src].type = "quatToEuler"
             => \E name \in ReaderNames, a \in {"x", "y", "z"} :
                   /\ c.dattr = "extracted_" \o a
                   /\ scene.nodes[c.src].name = OperatorName(name, a)

C26_Witness ==
    /\ last.op = "rr_build"
    /\ last.args.axis = List(<<"x", "w", "q">>)
    /\ rr.axis = <<"x">>
    /\ Operators(scene, "a", "x") # {}
    /\ \E rec \in RecordsOf(scene, "a") :
          InputOf(scene, rec, "extracted_x") \in Operators(scene, "a", "x")

\* C27: every operator a composite build creates, the one its twist step
\* creates for the twist axis included, is referenced by the slot of its axis
\* in the record of the composite's name.
C27_TwistOperatorIsRecorded ==
    [][ ( /\ last'.op = "cj_build"
          /\ Resolves(last'.args)
          /\ ReachedTwistStep(scene, scene', last'.args.name) )
        => \A op \in Created(scene, scene', {"quatToEuler"}) :
              \E a \in Axes, rec \in RecordsOf(scene', last'.args.name) :
                 /\ op \in Operators(scene', last'.args.name, a)
                 /\ InputOf(scene', rec, "extracted_" \o a) = op ]_vars

\* C28: a composite build of two or more variants leaves every variant's
\* driver attached to the composite's record, so that the record is among the
\* records the driver feeds (what add_connections resolves the record from).
C28_EveryDriverIsAttached ==
    [][ ( /\ last'.op = "cj_build"
          /\ Resolves(last'.args)
          /\ Len(last'.args.variants) >= 2
          /\ ReachedTwistStep(scene, scene', last'.args.name) )
        => \A i \in DOMAIN last'.args.variants :
              \E drv \in CreatedNamed(scene, scene', "transform",
                             last'.args.name \o last'.args.variants[i][1] \o "_DRV") :
                 NetworkOutputs(scene', drv) \cap RecordsOf(scene', last'.args.name) # {}
      ]_vars

\* C29: every record of the scene references a decomposition stage: a build
\* that stopped because target or reference did not resolve leaves no record
\* with an empty matrix_info behind.
C29_RecordHasItsChain ==
    \A rec \in Records(scene) :
        /\ InputOf(scene, rec, "matrix_info") # 0
        /\ scene.nodes[InputOf(scene, rec, "matrix_info")].type = "decomposeMatrix"

\* The axis-to-channel maps a call was given.
MapsOf(call) ==
    IF call.op = "cj_build"
    THEN {call.args.variants[i][2] : i \in DOMAIN call.args.variants}
    ELSE {call.args.axis_data}

\* The axes the maps of a call give no channel at all.
IdleAxes(call) ==
    {a \in Axes :
        /\ \E m \in MapsOf(call) : \E i \in DOMAIN m : m[i][1] = a
        /\ \A m \in MapsOf(call) : \A i \in DOMAIN m : m[i][1] = a => m[i][2] = <<>>}

\* C30: a Driven Mapping build, an add_connections and a composite build
\* create no operator and no curve for an axis that their axis-to-channel maps
\* give no channel (the composite's twist axis aside).
C30_IdleAxisMakesNothing ==
    [][ last'.op \in {"fk_build", "add_connections", "cj_build"}
        => \A a \in IdleAxes(last') \ {last'.args.twist_axis} :
              /\ \A op \in Created(scene, scene', {"quatToEuler"}) :
                    \A name \in ReaderNames : op \notin Operators(scene', name, a)
              /\ \A cv \in Created(scene, scene', {"animCurve"}) :
                    \A c \in scene'.conn :
                       c.dst = cv /\ c.dattr = "input" => c.sattr # "outputRotate" \o Upper(a)
      ]_vars

====
